---- MODULE Spec2Model ----
(***************************************************************************)
(* A model of the SAS language module of SoS (src/src/sos_sas/kernel.py):  *)
(* class sos_SAS with submit, get_vars, scp_tmp_file, get_path_names,      *)
(* put_vars and parse_response.                                            *)
(*                                                                         *)
(* Python strings are modelled as sequences of tokens.  A token is either  *)
(* one ordinary character or one of the multi-character units the code     *)
(* searches for (a tag, the HTML entity of the quote, the uuid of an item). *)
(* The string operations of the code (split, replace, in, startswith and    *)
(* the slices) are modelled on these sequences as Python computes them.    *)
(***************************************************************************)
EXTENDS Integers, Sequences, FiniteSets, TLC

VARIABLES
    html, parsed, parse_pc,                       \* parse_response
    LST, declared, kind, path_names, path_pc,     \* get_path_names
    stdin, calls, n, ret, response, raised, op,   \* submit and the BytesIO
    sos_dict, debug_mode, names, conversions,     \* get_vars
    warnings,                                     \* sos_kernel.warn
    items, idx, res, mode, scp_present,           \* put_vars
    expect, scp_log, put_pc

parseVars == <<html, parsed, parse_pc>>
pathVars == <<LST, declared, kind, path_names, path_pc>>
submitVars == <<stdin, calls, n, ret, response, raised, op>>
getVars == <<sos_dict, debug_mode, names, conversions>>
putVars == <<items, idx, res, mode, scp_present, expect, scp_log, put_pc>>
vars == <<parseVars, pathVars, submitVars, getVars, warnings, putVars>>

-----------------------------------------------------------------------------
(* Bounds of the model. *)

MaxHtmlLen == 4
MaxLstLen == 4
MaxPaths == 3
MaxPieces == 4
MaxCalls == 3
MaxNames == 2
MaxItems == 2

-----------------------------------------------------------------------------
(* Python's str operations, on sequences of tokens. *)

Range(s) == {s[i] : i \in 1..Len(s)}

SeqsUpTo(S, k) == UNION {[1..m -> S] : m \in 0..k}

\* s[i:i+len(sub)] == sub   (i counted from 1)
MatchAt(s, sub, i) ==
    /\ i >= 1
    /\ i + Len(sub) - 1 <= Len(s)
    /\ SubSeq(s, i, i + Len(sub) - 1) = sub

\* s.find(sub, i), counted from 1; 0 when sub does not occur from i on
RECURSIVE FindFrom(_, _, _)
FindFrom(s, sub, i) ==
    IF i + Len(sub) - 1 > Len(s) THEN 0
    ELSE IF SubSeq(s, i, i + Len(sub) - 1) = sub THEN i
    ELSE FindFrom(s, sub, i + 1)

\* s.find(sub), counted from 1; 0 when sub does not occur
Find(s, sub) == FindFrom(s, sub, 1)

\* sub in s
Contains(s, sub) == Find(s, sub) # 0

\* s.startswith(sub)
StartsWith(s, sub) == MatchAt(s, sub, 1)

\* s.split(sep): the pieces between the non-overlapping occurrences of sep,
\* found left to right; always at least one piece
RECURSIVE Split(_, _)
Split(s, sep) ==
    LET i == Find(s, sep)
    IN  IF i = 0
        THEN <<s>>
        ELSE <<SubSeq(s, 1, i - 1)>> \o
             Split(SubSeq(s, i + Len(sep), Len(s)), sep)

\* s.replace(old, new): every non-overlapping occurrence, left to right
RECURSIVE Replace(_, _, _)
Replace(s, old, new) ==
    LET i == Find(s, old)
    IN  IF i = 0
        THEN s
        ELSE SubSeq(s, 1, i - 1) \o new \o
             Replace(SubSeq(s, i + Len(old), Len(s)), old, new)

\* s.count(sub) for a one-token sub
Count(s, tok) == Cardinality({i \in 1..Len(s) : s[i] = tok})

\* l[1::2]
OddSlice(l) == [i \in 1..(Len(l) \div 2) |-> l[2 * i]]

\* l[-1::-1]
Reversed(l) == [i \in 1..Len(l) |-> l[Len(l) + 1 - i]]

\* l[-1]
Last(l) == l[Len(l)]

RECURSIVE Flatten(_)
Flatten(ss) == IF Len(ss) = 0 THEN <<>> ELSE ss[1] \o Flatten(Tail(ss))

-----------------------------------------------------------------------------
(* parse_response *)

SpanErr == "<span class=\"err\">"
SpanS == "<span class=\"s\">"
SpanClose == "</span>"
Br == "<br>"
Newline == "\n"
Space == " "

\* The substring class="err" (class="s") occurs in a text over HtmlTokens
\* exactly where the token SpanErr (SpanS) occurs.
HtmlTokens == {SpanErr, SpanS, SpanClose, Br, "a"}

HtmlInputs == SeqsUpTo(HtmlTokens, MaxHtmlLen)

\* one iteration of the loop over html.split('</span>')
ParseLine(acc, line) ==
    IF Contains(line, <<SpanErr>>)
    THEN [acc EXCEPT !.LOG =
             @ \o Replace(Replace(line, <<Br>>, <<Newline>>), <<SpanErr>>, <<>>)
               \o <<Space>>]
    ELSE IF Contains(line, <<SpanS>>)
    THEN [acc EXCEPT !.LST =
             @ \o Replace(Replace(line, <<Br>>, <<Newline>>), <<SpanS>>, <<>>)
               \o <<Space>>]
    ELSE acc

RECURSIVE ParseLines(_, _)
ParseLines(acc, lines) ==
    IF Len(lines) = 0 THEN acc
    ELSE ParseLines(ParseLine(acc, lines[1]), Tail(lines))

parse_response(h) ==
    ParseLines([LOG |-> <<>>, LST |-> <<>>], Split(h, <<SpanClose>>))

NoResult == [LOG |-> <<>>, LST |-> <<>>]

IdleRest ==
    /\ UNCHANGED <<pathVars, submitVars, getVars, warnings, putVars>>

InitParseIdle ==
    /\ html = <<>>
    /\ parsed = NoResult
    /\ parse_pc = "idle"

InitPathIdle ==
    /\ LST = <<>>
    /\ declared = <<>>
    /\ kind = "free"
    /\ path_names = <<>>
    /\ path_pc = "idle"

InitSubmitIdle ==
    /\ stdin = [buf |-> <<>>, pos |-> 0]
    /\ calls = <<>>
    /\ n = 0
    /\ ret = NoResult
    /\ response = <<>>
    /\ raised = FALSE
    /\ op = "init"

InitGetIdle ==
    /\ sos_dict = [v \in {} |-> "int"]
    /\ debug_mode = FALSE
    /\ names = <<>>
    /\ conversions = <<>>

InitPutIdle ==
    /\ items = <<>>
    /\ idx = 0
    /\ res = <<>>
    /\ mode = "STDIO"
    /\ scp_present = FALSE
    /\ expect = <<>>
    /\ scp_log = {}
    /\ put_pc = "idle"

InitParse ==
    /\ html \in HtmlInputs
    /\ parsed = NoResult
    /\ parse_pc = "call"
    /\ InitPathIdle /\ InitSubmitIdle /\ InitGetIdle /\ InitPutIdle
    /\ warnings = <<>>

ParseResponse ==
    /\ parse_pc = "call"
    /\ parsed' = parse_response(html)
    /\ parse_pc' = "done"
    /\ UNCHANGED html
    /\ IdleRest

NextParse == ParseResponse

SpecParse == InitParse /\ [][NextParse]_vars

\* a style-marker tag occurs in the text
HasStyleTag(s) == \E i \in 1..Len(s) : s[i] \in {SpanErr, SpanS}

\* C10: for every HTML input, neither the LOG nor the LST text returned by
\* parse_response contains an opening style-marker tag.
C10_NoResidualStyleTag ==
    parse_pc = "done" => ~HasStyleTag(parsed.LOG) /\ ~HasStyleTag(parsed.LST)

-----------------------------------------------------------------------------
(* get_path_names *)

Eq == "="
LParen == "("
RParen == ")"
Lt == "<"
Quote == "&#39;"

\* temp_name is a uuid4().hex: one token, it contains none of the others
TempName == <<"tmp">>

\* The order of the paths of a bracketed list without the final reversal
\* (a faulty variant of get_path_names).
get_path_names_forward(lst, temp_name) ==
    LET path_name == Split(Last(Split(lst, temp_name \o <<Eq>>)), <<Lt>>)[1]
    IN  IF ~StartsWith(path_name, <<LParen>>)
        THEN <<path_name>>
        ELSE OddSlice(Split(
                 Split(Last(Split(lst, temp_name \o <<Eq, LParen>>)),
                       <<RParen>>)[1],
                 <<Quote>>))

\* The value after the first occurrence of the marker instead of the last
\* (a faulty variant of get_path_names).
get_path_names_first(lst, temp_name) ==
    LET parts == Split(lst, temp_name \o <<Eq>>)
        path_name == Split(parts[IF Len(parts) > 1 THEN 2 ELSE 1], <<Lt>>)[1]
    IN  IF ~StartsWith(path_name, <<LParen>>)
        THEN <<path_name>>
        ELSE Reversed(OddSlice(Split(
                 Split(Last(Split(lst, temp_name \o <<Eq, LParen>>)),
                       <<RParen>>)[1],
                 <<Quote>>)))

get_path_names(lst, temp_name) ==
    LET path_name == Split(Last(Split(lst, temp_name \o <<Eq>>)), <<Lt>>)[1]
    IN  IF ~StartsWith(path_name, <<LParen>>)
        THEN \* if this is a single path
             <<path_name>>
        ELSE Reversed(OddSlice(Split(
                 Split(Last(Split(lst, temp_name \o <<Eq, LParen>>)),
                       <<RParen>>)[1],
                 <<Quote>>)))

\* Texts over every token the function looks for.
LstTokens == {TempName[1], Eq, LParen, RParen, Lt, Quote, "a"}

FreeTexts == SeqsUpTo(LstTokens, MaxLstLen)

\* Directory paths of a library definition: texts of ordinary characters.
PathNames == {<<"a">>, <<"b">>, <<"a", "b">>}

PathLists == UNION {[1..m -> PathNames] : m \in 1..MaxPaths}

\* ( 'A' 'B' 'C' ) as SAS prints it and the notebook escapes it
RECURSIVE RenderPaths(_)
RenderPaths(ps) ==
    IF Len(ps) = 0 THEN <<>>
    ELSE <<Space, Quote>> \o ps[1] \o <<Quote>> \o RenderPaths(Tail(ps))

\* What precedes the definition: nothing, the echo of the probe statement
\* (which holds the marker too), other output.
Prefixes == {<<>>, TempName \o <<Eq, "a", RParen, Lt>>, <<"a", Quote, RParen>>}

\* What follows the closing parenthesis.
Suffixes == {<<>>, <<Lt, "a">>, <<RParen, Quote, "a", Quote>>}

\* What follows a single path: HTML residue, or the end of the text.
SingleSuffixes == {<<>>, <<Lt>>, <<Lt, "a", RParen, Lt>>}

Single(pre, path, suf) == pre \o TempName \o <<Eq>> \o path \o suf

Bracketed(pre, ps, suf) ==
    pre \o TempName \o <<Eq, LParen>> \o RenderPaths(ps) \o <<Space, RParen>> \o suf

InitPath ==
    /\ \/ /\ kind = "free"
          /\ declared = <<>>
          /\ LST \in FreeTexts
       \/ /\ kind = "single"
          /\ declared \in [1..1 -> PathNames]
          /\ \E pre \in Prefixes, suf \in SingleSuffixes :
                 LST = Single(pre, declared[1], suf)
       \/ /\ kind = "multi"
          /\ declared \in PathLists
          /\ \E pre \in Prefixes, suf \in Suffixes :
                 LST = Bracketed(pre, declared, suf)
    /\ path_names = <<>>
    /\ path_pc = "call"
    /\ InitParseIdle /\ InitSubmitIdle /\ InitGetIdle /\ InitPutIdle
    /\ warnings = <<>>

GetPathNames ==
    /\ path_pc = "call"
    /\ path_names' = get_path_names(LST, TempName)
    /\ path_pc' = "done"
    /\ UNCHANGED <<LST, declared, kind>>
    /\ UNCHANGED <<parseVars, submitVars, getVars, warnings, putVars>>

NextPath == GetPathNames

SpecPath == InitPath /\ [][NextPath]_vars

Marker == TempName \o <<Eq>>

UpToLt(lst, i) ==
    LET ends == {e \in (i + 1)..Len(lst) : lst[e] = Lt}
        e == IF ends = {} THEN Len(lst) + 1
             ELSE CHOOSE x \in ends : \A y \in ends : x <= y
    IN  SubSeq(lst, i + 1, e - 1)

\* the positions at which an occurrence of marker= ends
MarkerEnds(lst) == {i \in 1..Len(lst) : MatchAt(lst, Marker, i - Len(Marker) + 1)}

FirstOf(S) == CHOOSE x \in S : \A y \in S : x <= y
LastOf(S) == CHOOSE x \in S : \A y \in S : x >= y

\* C4 as stated: for a single-path definition the result is the one-element
\* sequence holding the text between the FIRST occurrence of marker= and the
\* next "<", also when marker= occurs more than once.
C4_FirstOccurrence ==
    (path_pc = "done" /\ MarkerEnds(LST) # {}) =>
        LET raw == UpToLt(LST, FirstOf(MarkerEnds(LST)))
        IN  ~StartsWith(raw, <<LParen>>) => path_names = <<raw>>

\* C4 amended: for a single-path definition the result is the one-element
\* sequence holding the text between the LAST occurrence of marker= and the
\* next "<" (the end of the text when no "<" follows).
C4_LastOccurrence ==
    (path_pc = "done" /\ MarkerEnds(LST) # {}) =>
        LET raw == UpToLt(LST, LastOf(MarkerEnds(LST)))
        IN  ~StartsWith(raw, <<LParen>>) => path_names = <<raw>>

C4_Witness ==
    /\ path_pc = "done"
    /\ kind = "single"
    /\ Cardinality(MarkerEnds(LST)) = 2
    /\ Last(LST) = Lt
    /\ declared = <<<<"a", "b">>>>
    /\ path_names = declared

\* C5: for every LST text that does not contain the marker token (the empty
\* text too), get_path_names returns an empty sequence.
C5_AbsentMarkerEmpty ==
    (path_pc = "done" /\ ~Contains(LST, TempName)) => path_names = <<>>

-----------------------------------------------------------------------------
(* self.stdin, a BytesIO: its bytes and its position *)

getvalue(io) == io.buf

seek(io, p) == [io EXCEPT !.pos = p]

\* truncate(): cut at the current position
truncate(io) == [io EXCEPT !.buf = SubSeq(@, 1, io.pos)]

\* write(data): at the current position, which moves behind the data
write(io, data) ==
    [buf |-> SubSeq(io.buf, 1, io.pos) \o data \o
             SubSeq(io.buf, io.pos + Len(data) + 1, Len(io.buf)),
     pos |-> io.pos + Len(data)]

\* truncate() at the position the writes left (a faulty
\* variant of clear_stdin).
clear_stdin_no_seek(io) == truncate(io)

\* submit, lines 95-96: self.stdin.seek(0); self.stdin.truncate()
clear_stdin(io) == truncate(seek(io, 0))

-----------------------------------------------------------------------------
(* submit *)

\* HTML bodies the SAS kernel may answer with
Html1 == <<SpanErr, "a", SpanClose, SpanS, "a", Br, SpanClose>>
Html2 == <<"a">>

Messages ==
    [type : {"execute_result"}, html : {Html1, Html2}] \cup
    [type : {"stream"}, html : {Html2}]

\* What sos_kernel.get_response does: it raises, or returns messages.
Replies ==
    {[raise |-> TRUE, msgs |-> <<>>]} \cup
    [raise : {FALSE}, msgs : SeqsUpTo(Messages, 2)]

IsResult(x) == x.type = "execute_result"

\* res[-1] instead of res[0] (a faulty variant of
\* first_result).
last_result(msgs) ==
    LET rs == SelectSeq(msgs, IsResult)
    IN  IF Len(rs) > 0 THEN rs[Len(rs)].html ELSE <<>>

\* submit, lines 105-109
first_result(msgs) ==
    LET rs == SelectSeq(msgs, IsResult)
    IN  IF Len(rs) > 0 THEN rs[1].html ELSE <<>>

\* The part of the state submit reads and writes.
Session == [stdin |-> stdin, calls |-> calls, ret |-> ret,
            response |-> response, raised |-> raised]

\* submit(code), with what the callback does.  A call is recorded with the
\* code the callback was given and the buffer as it was then.
submit(s, code, reply) ==
    LET sas_code == getvalue(s.stdin) \o code
        io == clear_stdin(s.stdin)
        call == [code |-> sas_code, buf |-> getvalue(io)]
        r == first_result(reply.msgs)
    IN  [stdin |-> io,
         calls |-> Append(s.calls, call),
         response |-> reply.msgs,
         ret |-> IF reply.raise THEN s.ret ELSE [LOG |-> r, LST |-> r],
         raised |-> reply.raise]

SetSession(s) ==
    /\ stdin' = s.stdin
    /\ calls' = s.calls
    /\ ret' = s.ret
    /\ response' = s.response
    /\ raised' = s.raised

\* The texts written and submitted are numbered as they come, so that each
\* one can be followed.
Fresh(len) == [i \in 1..len |-> n + i]

\* somebody writes to the pending-input buffer
Write ==
    /\ \E len \in 1..2 :
        /\ n + len <= MaxPieces
        /\ stdin' = write(stdin, Fresh(len))
        /\ n' = n + len
    /\ op' = "write"
    /\ UNCHANGED <<calls, ret, response, raised>>
    /\ UNCHANGED <<parseVars, pathVars, getVars, warnings, putVars>>

Submit ==
    /\ \E len \in 0..1, reply \in Replies :
        /\ n + len <= MaxPieces
        /\ Len(calls) < MaxCalls
        /\ SetSession(submit(Session, Fresh(len), reply))
        /\ n' = n + len
    /\ op' = "submit"
    /\ UNCHANGED <<parseVars, pathVars, getVars, warnings, putVars>>

-----------------------------------------------------------------------------
(* get_vars *)

VarNames == {"df", "k"}
Types == {"DataFrame", "int"}

\* The state of the loop of get_vars: the session, the warnings, the calls
\* of dataframe2sasdata and the number of texts used so far.
\* One iteration without the continue (a faulty
\* variant of get_vars_name).
get_vars_name_no_continue(g, name, reply) ==
    LET w == IF sos_dict[name] # "DataFrame" /\ debug_mode
             THEN [g EXCEPT !.warnings = Append(@, name)]
             ELSE g
        s == submit(w.session, <<w.n + 1>>, reply)
    IN  [w EXCEPT !.conversions = Append(@, name),
                  !.session = s,
                  !.n = @ + 1,
                  !.raised = reply.raise]

\* One iteration, lines 119-131.  dataframe2sasdata is saspy's: it is called
\* with the renamed table and calls self.submit, which may raise.
get_vars_name(g, name, reply) ==
    IF sos_dict[name] # "DataFrame"
    THEN IF debug_mode
         THEN [g EXCEPT !.warnings = Append(@, name)]
         ELSE g
    ELSE LET s == submit(g.session, <<g.n + 1>>, reply)
         IN  [g EXCEPT !.conversions = Append(@, name),
                       !.session = s,
                       !.n = @ + 1,
                       !.raised = reply.raise]

\* for name in names: an exception leaves the loop
RECURSIVE get_vars(_, _, _)
get_vars(g, ns, replies) ==
    IF Len(ns) = 0 \/ g.raised THEN g
    ELSE get_vars(get_vars_name(g, ns[1], replies[1]), Tail(ns), Tail(replies))

GetVars ==
    /\ \E ns \in SeqsUpTo(VarNames, MaxNames) :
       \E replies \in [1..Len(ns) -> {r \in Replies : Len(r.msgs) <= 1}] :
       \E g \in {get_vars([session |-> Session, warnings |-> <<>>,
                           conversions |-> <<>>, n |-> n, raised |-> FALSE],
                          ns, replies)} :
            /\ g.n <= MaxPieces
            /\ Len(g.session.calls) <= MaxCalls
            /\ names' = ns
            /\ SetSession([g.session EXCEPT !.raised = g.raised])
            /\ warnings' = g.warnings
            /\ conversions' = g.conversions
            /\ n' = g.n
    /\ op' = "get_vars"
    /\ UNCHANGED <<sos_dict, debug_mode>>
    /\ UNCHANGED <<parseVars, pathVars, putVars>>

Init ==
    /\ InitSubmitIdle
    /\ InitGetIdle
    /\ warnings = <<>>
    /\ InitParseIdle /\ InitPathIdle /\ InitPutIdle

Next == Write \/ Submit

Spec == Init /\ [][Next]_vars

InitGet ==
    /\ InitSubmitIdle
    /\ sos_dict \in [VarNames -> Types]
    /\ debug_mode \in BOOLEAN
    /\ names = <<>>
    /\ conversions = <<>>
    /\ warnings = <<>>
    /\ InitParseIdle /\ InitPathIdle /\ InitPutIdle

NextGet == GetVars

SpecGet == InitGet /\ [][NextGet]_vars

-----------------------------------------------------------------------------
(* Claims about submit and get_vars *)

Codes == [i \in 1..Len(calls) |-> calls[i].code]

\* C1: for any sequence of writes interleaved with submits, each submit hands
\* the callback exactly the buffered text in write order followed by code
\* (all texts handed over so far, then the buffer, are the texts written and
\* submitted so far, each once and in order), the buffer is empty when the
\* callback is invoked and when submit returns or fails.
C1_BufferHandedOverOnce ==
    /\ Flatten(Codes) \o getvalue(stdin) = [i \in 1..n |-> i]
    /\ \A i \in 1..Len(calls) : calls[i].buf = <<>>
    /\ op = "submit" => getvalue(stdin) = <<>>

C1_Witness ==
    /\ op = "submit"
    /\ raised
    /\ Codes = <<<<1, 2>>, <<3, 4>>>>

ResultIndexes == {i \in 1..Len(response) : response[i].type = "execute_result"}

FirstBody ==
    IF ResultIndexes = {} THEN <<>>
    ELSE response[CHOOSE i \in ResultIndexes : \A j \in ResultIndexes : i <= j].html

\* C2 as stated: submit returns parse_response's result for the HTML body of
\* the first execute_result message (the empty string when there is none).
C2_ReturnsParsed ==
    (op = "submit" /\ ~raised) => ret = parse_response(FirstBody)

\* C2 amended: submit returns the HTML body of the first execute_result
\* message (the empty string when there is none), unparsed, as LOG and as LST.
C2_ReturnsRawBody ==
    (op = "submit" /\ ~raised) => ret.LOG = FirstBody /\ ret.LST = FirstBody

C2_Witness ==
    /\ op = "submit"
    /\ ~raised
    /\ Len(response) = 2
    /\ response[1].type = "stream"
    /\ response[2] = [type |-> "execute_result", html |-> Html1]
    /\ ret = [LOG |-> Html1, LST |-> Html1]

IsFrame(x) == sos_dict[x] = "DataFrame"
NotFrame(x) == sos_dict[x] # "DataFrame"

\* C8 as stated: for every name whose value is not a DataFrame, get_vars
\* emits a warning and makes no conversion call, with debug mode on or off,
\* and goes on with the remaining names.
C8_WarnsInEveryMode ==
    (op = "get_vars" /\ ~raised) =>
        /\ warnings = SelectSeq(names, NotFrame)
        /\ conversions = SelectSeq(names, IsFrame)

\* C8 amended: for every name whose value is not a DataFrame, get_vars makes
\* no conversion call and goes on with the remaining names without raising;
\* it emits a warning for the name when the kernel's debug mode is on and
\* none when it is off.
C8_WarnsInDebugMode ==
    op = "get_vars" =>
        /\ \A i \in 1..Len(conversions) : IsFrame(conversions[i])
        /\ \A i \in 1..Len(warnings) : NotFrame(warnings[i]) /\ debug_mode
        /\ ~raised =>
            /\ warnings = IF debug_mode THEN SelectSeq(names, NotFrame) ELSE <<>>
            /\ conversions = SelectSeq(names, IsFrame)

C8_Witness ==
    /\ op = "get_vars"
    /\ ~raised
    /\ ~debug_mode
    /\ names = <<"k", "df">>
    /\ NotFrame("k") /\ IsFrame("df")
    /\ warnings = <<>>
    /\ conversions = <<"df">>

-----------------------------------------------------------------------------
(* scp_tmp_file and put_vars *)

Dot == "."

\* The items asked for: a name, libname.name, and a name with two separators.
ItemNames == {<<"x">>, <<"l", Dot, "T">>, <<"l", Dot, "t", Dot, "e">>}

ItemLists == SeqsUpTo(ItemNames, MaxItems)

\* uuid.uuid4().hex of the idx-th item: fresh for every item
TempNameOf(i) == <<"tmp", ToString(i)>>

\* str.lower()
Lower(s) == [i \in 1..Len(s) |-> IF s[i] = "T" THEN "t" ELSE s[i]]

\* item.replace('.', '_')
KeyOf(item) == Replace(item, <<Dot>>, <<"_">>)

\* The split of the item without the test of the number of separators (a
\* faulty variant of parse_item).
parse_item_unchecked(item) ==
    IF Contains(item, <<Dot>>)
    THEN LET i == Find(item, <<Dot>>)
         IN  [error |-> FALSE,
              libname |-> SubSeq(item, 1, i - 1),
              data |-> SubSeq(item, i + 1, Len(item))]
    ELSE [error |-> FALSE, libname |-> <<"work">>, data |-> item]

\* put_vars, lines 180-188: libname and data of the item, or a ValueError
parse_item(item) ==
    IF Contains(item, <<Dot>>)
    THEN IF Count(item, Dot) > 1
         THEN [error |-> TRUE, libname |-> <<>>, data |-> <<>>]
         ELSE LET i == Find(item, <<Dot>>)
              IN  [error |-> FALSE,
                   libname |-> SubSeq(item, 1, i - 1),
                   data |-> SubSeq(item, i + 1, Len(item))]
    ELSE [error |-> FALSE, libname |-> <<"work">>, data |-> item]

\* the probe statement written to stdin, lines 190-192
Probe(temp_name, libname) ==
    <<"%put ">> \o temp_name \o <<Eq, "%sysfunc(pathname(">> \o libname \o
    <<"));", Newline>>

\* The file <path_name>/<data>.sas7bdat as the environment has it:
\*   local          a file here, read_sas reads it as utf-8
\*   local_latin1   a file here, read_sas reads it at the second attempt
\*   local_corrupt  a file here, read_sas fails
\*   remote         no file here; scp brings a file read_sas reads
\*   absent         no file here; scp brings nothing
FileEnv == {"local", "local_latin1", "local_corrupt", "remote", "absent"}

isfile(fe) == fe \in {"local", "local_latin1", "local_corrupt"}

\* pd.read_sas(file, encoding='utf-8'), and without encoding after a
\* UnicodeDecodeError: TRUE when a table comes out
read_sas(fe) == fe \in {"local", "local_latin1", "remote"}

\* scp_tmp_file, lines 133-159: what the call does.  Without the scp
\* program the RuntimeError is returned, not raised.
scp_tmp_file(present, fe) ==
    IF ~present
    THEN [present |-> present, kind |-> "return", value |-> "RuntimeError",
          spawned |-> FALSE]
    ELSE IF fe = "remote"
    THEN [present |-> present, kind |-> "return", value |-> "dest_file",
          spawned |-> TRUE]
    ELSE [present |-> present, kind |-> "raise", value |-> "RuntimeError",
          spawned |-> TRUE]

DataFile(path_name, data) ==
    [dir |-> path_name, file |-> Lower(data) \o <<".sas7bdat">>]

\* The loop over path_names, lines 199-233.  p is the state of the item:
\* res, ok and the calls of scp_tmp_file.
RECURSIVE try_paths(_, _, _, _, _)
try_paths(p, paths, data, key, fs) ==
    IF Len(paths) = 0 THEN p
    ELSE
        LET fe == fs[paths[1]]
            df == DataFile(paths[1], data)
            rest == Tail(paths)
        IN  IF isfile(fe)
            THEN IF read_sas(fe)
                 THEN [p EXCEPT !.res = (key :> df) @@ @, !.ok = TRUE]
                 ELSE try_paths(p, rest, data, key, fs)
            ELSE IF mode = "SSH"
            THEN LET r == scp_tmp_file(scp_present, fe)
                     q == [p EXCEPT !.scp_log = @ \cup {r}]
                 IN  IF r.kind = "return" /\ r.value = "dest_file" /\ read_sas(fe)
                     THEN [q EXCEPT !.res = (key :> df) @@ @, !.ok = TRUE]
                     ELSE \* the exception is logged; the next path is tried
                          try_paths(q, rest, data, key, fs)
            ELSE try_paths(p, rest, data, key, fs)

\* The body of the loop over items without the outer try (a faulty variant of
\* put_vars_item).
put_vars_item_no_try(st, i, item, reply, fs) ==
    LET temp_name == TempNameOf(i)
        it == parse_item(item)
    IN  IF it.error
        THEN [st EXCEPT !.raised = TRUE]
        ELSE
            LET io == write(st.session.stdin, Probe(temp_name, it.libname))
                s == submit([st.session EXCEPT !.stdin = io], <<>>, reply)
            IN  IF reply.raise
                THEN [st EXCEPT !.session = s, !.raised = TRUE]
                ELSE
                    LET paths == get_path_names(s.ret.LST, temp_name)
                        p == try_paths([res |-> st.res, ok |-> FALSE,
                                        scp_log |-> st.scp_log],
                                       paths, it.data, KeyOf(item), fs)
                    IN  [st EXCEPT
                            !.session = s,
                            !.res = p.res,
                            !.scp_log = p.scp_log,
                            !.warnings = IF p.ok THEN @
                                ELSE Append(@, [idx |-> i, text |-> "Failed to access SAS data file"])]

\* The body of the loop over items, lines 177-243.
put_vars_item(st, i, item, reply, fs) ==
    LET temp_name == TempNameOf(i)
        it == parse_item(item)
        failed == Append(st.warnings, [idx |-> i, text |-> "Failed to get dataset"])
    IN  IF it.error
        THEN [st EXCEPT !.warnings = failed]
        ELSE
            LET io == write(st.session.stdin, Probe(temp_name, it.libname))
                s == submit([st.session EXCEPT !.stdin = io], <<>>, reply)
            IN  IF reply.raise
                THEN [st EXCEPT !.session = s, !.warnings = failed]
                ELSE
                    LET paths == get_path_names(s.ret.LST, temp_name)
                        p == try_paths([res |-> st.res, ok |-> FALSE,
                                        scp_log |-> st.scp_log],
                                       paths, it.data, KeyOf(item), fs)
                    IN  [st EXCEPT
                            !.session = s,
                            !.res = p.res,
                            !.scp_log = p.scp_log,
                            !.warnings = IF p.ok THEN @
                                ELSE Append(@, [idx |-> i, text |-> "Failed to access SAS data file"])]

\* What SAS prints for the probe of the item: one path, or a list of two
\* paths after the echo of the statement.
PutLsts(temp_name) ==
    {temp_name \o <<Eq, "a", Lt>>,
     temp_name \o <<Eq, "%", Lt>> \o temp_name \o
         <<Eq, LParen, Space, Quote, "a", Quote, Space, Quote, "b", Quote,
           Space, RParen, Lt>>}

PutReplies(temp_name) ==
    {[raise |-> TRUE, msgs |-> <<>>], [raise |-> FALSE, msgs |-> <<>>]} \cup
    {[raise |-> FALSE, msgs |-> <<[type |-> "execute_result", html |-> l]>>] :
        l \in PutLsts(temp_name)}

\* The paths the code gets for the reply (none when nothing is submitted or
\* the callback fails).
PathsOf(item, reply, temp_name) ==
    IF reply.raise THEN <<>>
    ELSE get_path_names(first_result(reply.msgs), temp_name)

\* Whether the environment lets a table be read from the file.
Readable(fe) ==
    \/ fe \in {"local", "local_latin1"}
    \/ fe = "remote" /\ mode = "SSH" /\ scp_present

\* What the item should come to in this environment: whether a table is to
\* be had, and the file of the first path that gives one.
Expected(item, reply, fs, paths) ==
    LET good == {j \in 1..Len(paths) : Readable(fs[paths[j]])}
        named == Count(item, Dot) <= 1
        data == IF Contains(item, <<Dot>>)
                THEN SubSeq(item, Find(item, <<Dot>>) + 1, Len(item))
                ELSE item
    IN  IF named /\ ~reply.raise /\ good # {}
        THEN [works |-> TRUE,
              table |-> DataFile(paths[CHOOSE j \in good : \A k \in good : j <= k],
                                 data)]
        ELSE [works |-> FALSE, table |-> DataFile(<<>>, <<>>)]

InitPut ==
    /\ items \in ItemLists
    /\ idx = 0
    /\ res = <<>>
    /\ mode \in {"STDIO", "SSH"}
    \* the scp program is looked for in SSH mode only
    /\ scp_present \in (IF mode = "SSH" THEN BOOLEAN ELSE {FALSE})
    /\ expect = <<>>
    /\ scp_log = {}
    /\ put_pc = "loop"
    /\ stdin \in {[buf |-> <<>>, pos |-> 0], [buf |-> <<"pending;">>, pos |-> 1]}
    /\ calls = <<>>
    /\ n = 0
    /\ ret = NoResult
    /\ response = <<>>
    /\ raised = FALSE
    /\ op = "put_vars"
    /\ warnings = <<>>
    /\ InitParseIdle /\ InitPathIdle /\ InitGetIdle

PutVarsItem ==
    /\ put_pc = "loop"
    /\ idx < Len(items)
    /\ \E reply \in PutReplies(TempNameOf(idx + 1)) :
       \E paths \in {PathsOf(items[idx + 1], reply, TempNameOf(idx + 1))} :
       \E fs \in [Range(paths) -> FileEnv] :
       \E st \in {put_vars_item([session |-> Session, res |-> res,
                                 warnings |-> warnings, scp_log |-> scp_log,
                                 raised |-> FALSE],
                                idx + 1, items[idx + 1], reply, fs)} :
            /\ SetSession([st.session EXCEPT !.raised = st.raised])
            /\ res' = st.res
            /\ warnings' = st.warnings
            /\ scp_log' = st.scp_log
            /\ put_pc' = IF st.raised THEN "raised" ELSE "loop"
            /\ expect' = Append(expect, Expected(items[idx + 1], reply, fs, paths))
            /\ idx' = idx + 1
    /\ UNCHANGED <<items, mode, scp_present, n, op>>
    /\ UNCHANGED <<parseVars, pathVars, getVars>>

PutVarsReturn ==
    /\ put_pc = "loop"
    /\ idx = Len(items)
    /\ put_pc' = "returned"
    /\ UNCHANGED <<items, idx, res, mode, scp_present, expect, scp_log>>
    /\ UNCHANGED <<parseVars, pathVars, submitVars, getVars, warnings>>

NextPut == PutVarsItem \/ PutVarsReturn

SpecPut == InitPut /\ [][NextPut]_vars

-----------------------------------------------------------------------------
(* Claims about put_vars and scp_tmp_file *)

Processed == 1..idx
Succeeded == {i \in Processed : expect[i].works}
WarningsFor(i) == {w \in 1..Len(warnings) : warnings[w].idx = i}

\* C6: for every item list and every combination of per-item failures,
\* put_vars does not raise, processes every item, emits a warning for each
\* failed item and returns a mapping whose keys are exactly those of the
\* items that succeeded; the entry of a key is the table of the (last) item
\* of that key that succeeded, whatever happened to the other items.
C6_BatchSurvivesFailures ==
    /\ put_pc # "raised"
    /\ put_pc = "returned" => idx = Len(items)
    /\ DOMAIN res = {KeyOf(items[i]) : i \in Succeeded}
    /\ \A k \in DOMAIN res :
           res[k] = expect[LastOf({i \in Succeeded : KeyOf(items[i]) = k})].table
    /\ \A i \in Processed \ Succeeded : WarningsFor(i) # {}

C6_Witness ==
    /\ put_pc = "returned"
    /\ items = <<<<"x">>, <<"l", Dot, "T">>>>
    /\ mode = "SSH"
    /\ ~scp_present
    /\ scp_log # {}
    /\ Succeeded = {2}
    /\ WarningsFor(1) # {}
    /\ DOMAIN res = {<<"l", "_", "T">>}
    /\ res[<<"l", "_", "T">>] = [dir |-> <<"a">>, file |-> <<"t", ".sas7bdat">>]

BadNames == {i \in Processed : Count(items[i], Dot) > 1}

\* C7: for an item name with more than one "." put_vars emits exactly one
\* warning, writes nothing to the pending-input buffer, makes no submission
\* for it, and the result has no key for it.
C7_TwoSeparatorsSkipped ==
    /\ Len(calls) = Cardinality(Processed \ BadNames)
    /\ \A i \in BadNames :
        /\ Cardinality(WarningsFor(i)) = 1
        /\ \A c \in 1..Len(calls) : ~Contains(calls[c].code, TempNameOf(i))
        /\ ~Contains(getvalue(stdin), TempNameOf(i))
        /\ KeyOf(items[i]) \notin DOMAIN res

C7_Witness ==
    /\ put_pc = "returned"
    /\ items = <<<<"l", Dot, "t", Dot, "e">>, <<"x">>>>
    /\ Succeeded = {2}
    /\ Len(warnings) = 1
    /\ warnings[1].idx = 1
    /\ Len(calls) = 1
    /\ Contains(calls[1].code, TempNameOf(2))

\* C9: when the scp program is not present, scp_tmp_file fails by raising:
\* it returns no value to its caller and does not spawn the copy command.
C9_MissingScpRaises ==
    \A c \in scp_log : ~c.present => c.kind = "raise" /\ ~c.spawned

====
